---- MODULE Spec2Model ----
(***************************************************************************)
(* Sliding-window rate limiter over a shared ordered store.                *)
(*                                                                         *)
(* RateLimiter (src/src/RateLimiter.js): the constructor and consume().    *)
(* The store is the client consume() talks to: zRemRangeByScore, zCard,    *)
(* zAdd and expire over a map from key to a list of {score, value} items,  *)
(* as the store of tests/RateLimitter.test.js keeps it.  Every await of    *)
(* consume() is a point where other calls and the clock may move.          *)
(*                                                                         *)
(* The store keeps a list per key and never compares the values of its     *)
(* items, so the random suffix of uniqueId is drawn from a one-element     *)
(* set: a second suffix changes no count and no result.  Store operations  *)
(* fail by rejecting without effect, at any of the four awaits.            *)
(***************************************************************************)
EXTENDS Integers, Sequences, FiniteSets, TLC

VARIABLES
    ctorArgs,   \* the arguments given to new RateLimiter(redis, options)
    middleware, \* what createRateLimitMiddleware(limiter, options) gave, if called
    limiter,    \* the constructed limiter, or the error the constructor threw
    clock,      \* Date.now(), in ms
    store,      \* the store's map: key -> sequence of [score, value]
    pc,         \* per caller: where its consume() call is suspended
    frame,      \* per caller: the locals of its consume() call, then its outcome
    ncalls,     \* the number of consume() calls and of requests made so far
    log,        \* the results a sequential caller has received, in order
    res,        \* per caller: the response of the request the middleware handles
    peak,       \* per key: the most calls for it that were ever in flight together
    lastExpire  \* per key: the expire call last made for the records it holds

vars == <<ctorArgs, middleware, limiter, clock, store, pc, frame, ncalls, log, res, peak, lastExpire>>

----------------------------------------------------------------------------
(* Bounds of the model *)

MaxCalls == 3
MaxTicks == 2
MaxHandled == 2

\* the calls that can be in flight at once
Callers == {1, 2}

(* Program constants *)

DefaultWindowMs == 60000
DefaultMaxRequests == 100
MsPerSecond == 1000

\* the clock is observed at whole seconds; windows are 1 s and 1.5 s long
TickMs == MsPerSecond
HalfSecond == MsPerSecond \div 2
RandomSuffixes == {"k3x"}

----------------------------------------------------------------------------
(* JavaScript values: a type tag and a payload *)

JSUndefined == [t |-> "undefined", v |-> 0]
JSNull == [t |-> "null", v |-> 0]
Num(n) == [t |-> "number", v |-> n]
Str(s) == [t |-> "string", v |-> s]
Bool(b) == [t |-> "boolean", v |-> b]
RedisClient == [t |-> "object", v |-> 0]

Truthy(x) ==
    CASE x.t = "undefined" -> FALSE
      [] x.t = "null" -> FALSE
      [] x.t = "number" -> x.v # 0
      [] x.t = "string" -> x.v # ""
      [] x.t = "boolean" -> x.v
      [] OTHER -> TRUE

\* a || b
OrElse(a, b) == IF Truthy(a) THEN a ELSE b

\* Math.ceil(a / b), for b > 0
CeilDiv(a, b) == IF a % b = 0 THEN a \div b ELSE (a \div b) + 1

----------------------------------------------------------------------------
(* new RateLimiter(redis, options) *)

Thrown(msg) == [thrown |-> TRUE, message |-> msg]

RateLimiterNew(redis, options) ==
    LET windowMs == OrElse(options.windowMs, Num(DefaultWindowMs)).v
        maxRequests == OrElse(options.maxRequests, Num(DefaultMaxRequests)).v
        keyPrefix == OrElse(options.keyPrefix, Str("ratelimit")).v
        failClosed == OrElse(options.failClosed, Bool(FALSE)).v
    IN  IF ~Truthy(redis) THEN Thrown("Redis client is required")
        ELSE IF windowMs <= 0 THEN Thrown("windowMs must be a positive number")
        ELSE IF maxRequests <= 0 THEN Thrown("maxRequests must be a positive number")
        ELSE [thrown |-> FALSE, windowMs |-> windowMs, maxRequests |-> maxRequests,
              keyPrefix |-> keyPrefix, failClosed |-> failClosed]

NotConstructed == [thrown |-> FALSE, pending |-> TRUE]

RedisInputs == {JSNull, RedisClient}
WindowMsInputs == {JSUndefined, Num(0 - MsPerSecond), Num(0), Num(MsPerSecond),
                   Num(MsPerSecond + HalfSecond)}
MaxRequestsInputs == {JSUndefined, Num(-1), Num(0), Num(1), Num(2)}
KeyPrefixInputs == {JSUndefined, Str("api")}
FailClosedInputs == {JSUndefined, Bool(FALSE), Bool(TRUE)}

OptionsInputs ==
    [windowMs : WindowMsInputs, maxRequests : MaxRequestsInputs,
     keyPrefix : KeyPrefixInputs, failClosed : FailClosedInputs]

\* the configurations the running system is explored with
RunOptions ==
    {[windowMs |-> Num(MsPerSecond + (m - 1) * HalfSecond), maxRequests |-> Num(m),
      keyPrefix |-> JSUndefined, failClosed |-> f] :
        m \in {1, 2}, f \in {Bool(FALSE), Bool(TRUE)}}

----------------------------------------------------------------------------
(* The store: a map from key to a list of items *)

\* store.get(key) || []: a key never set reads as the empty list, which is how
\* the map is kept here
StoreGet(s, key) == s[key]

StoreSet(s, key, items) == [s EXCEPT ![key] = items]

RECURSIVE FilterInverted(_, _, _)
\* the filter with its test inverted: it keeps the items of [min, max]
FilterInverted(items, min, max) ==
    IF items = <<>> THEN <<>>
    ELSE LET h == Head(items)
             rest == FilterInverted(Tail(items), min, max)
         IN  IF h.score >= min /\ h.score <= max THEN <<h>> \o rest ELSE rest

RECURSIVE FilterBoundaryKept(_, _, _)
\* a filter that keeps the record whose score is exactly max
FilterBoundaryKept(items, min, max) ==
    IF items = <<>> THEN <<>>
    ELSE LET h == Head(items)
             rest == FilterBoundaryKept(Tail(items), min, max)
         IN  IF h.score < min \/ h.score >= max THEN <<h>> \o rest ELSE rest

RECURSIVE Filter(_, _, _)
\* items.filter(item => item.score < min || item.score > max)
Filter(items, min, max) ==
    IF items = <<>> THEN <<>>
    ELSE LET h == Head(items)
             rest == Filter(Tail(items), min, max)
         IN  IF h.score < min \/ h.score > max THEN <<h>> \o rest ELSE rest

zRemRangeByScore(s, key, min, max) == StoreSet(s, key, Filter(StoreGet(s, key), min, max))

\* a count that misses one record
zCardOffByOne(s, key) == IF StoreGet(s, key) = <<>> THEN 0 ELSE Len(StoreGet(s, key)) - 1

zCard(s, key) == Len(StoreGet(s, key))

zAdd(s, key, member) == StoreSet(s, key, Append(StoreGet(s, key), member))

----------------------------------------------------------------------------
(* consume(identifier) *)

\* the key without the identifier
KeyOfPrefixOnly(keyPrefix, identifier) == keyPrefix \o ":"

KeyOf(keyPrefix, identifier) == keyPrefix \o ":" \o identifier

UniqueId(now, suffix) == ToString(now) \o "-" \o suffix

\* line 45: if (count < this.maxRequests), and the test off by one
UnderLimitOffByOne(count, maxRequests) == count <= maxRequests

UnderLimit(count, maxRequests) == count < maxRequests

\* line 50, and the same without the event just recorded
RemainingBeforeInsert(maxRequests, count) == maxRequests - count

Remaining(maxRequests, count) == maxRequests - count - 1

AllowedResult(l, now, count) ==
    [allowed |-> TRUE, remaining |-> Remaining(l.maxRequests, count),
     limit |-> l.maxRequests, resetTime |-> now + l.windowMs]

\* the over-budget result reported as an unavailable limiter
DeniedResultAsError(l) ==
    [allowed |-> FALSE, remaining |-> 0, limit |-> l.maxRequests,
     error |-> "Rate limit exceeded"]

DeniedResult(l) ==
    [allowed |-> FALSE, remaining |-> 0, limit |-> l.maxRequests,
     retryAfter |-> CeilDiv(l.windowMs, MsPerSecond)]

\* the catch block reporting an untouched budget
FailureResultFullRemaining(l) ==
    IF l.failClosed
    THEN [allowed |-> FALSE, remaining |-> l.maxRequests, limit |-> l.maxRequests,
          error |-> "Rate limiter unavailable"]
    ELSE [allowed |-> TRUE, remaining |-> l.maxRequests, limit |-> l.maxRequests,
          degraded |-> TRUE]

\* the catch block with the policy test inverted
FailureResultInverted(l) ==
    IF ~l.failClosed
    THEN [allowed |-> FALSE, remaining |-> 0, limit |-> l.maxRequests,
          error |-> "Rate limiter unavailable"]
    ELSE [allowed |-> TRUE, remaining |-> 0, limit |-> l.maxRequests,
          degraded |-> TRUE]

FailureResult(l) ==
    IF l.failClosed
    THEN [allowed |-> FALSE, remaining |-> 0, limit |-> l.maxRequests,
          error |-> "Rate limiter unavailable"]
    ELSE [allowed |-> TRUE, remaining |-> 0, limit |-> l.maxRequests,
          degraded |-> TRUE]

IdentifierInputs == {JSUndefined, Str(""), Num(0), Num(123), Str("a"), Str("b")}
ValidIdentifiers == {i \in IdentifierInputs : Truthy(i) /\ i.t = "string"}

\* every key a call can address
Keys ==
    {KeyOf(OrElse(p, Str("ratelimit")).v, i.v) :
        p \in KeyPrefixInputs, i \in ValidIdentifiers \cup {Str("anonymous")}}

NoValue == [none |-> TRUE]

\* no expire call was made for the records of a key
NoExpire == [none |-> TRUE]

IdleFrame == [identifier |-> JSUndefined, key |-> "", now |-> 0, windowStart |-> 0,
              isOpen |-> TRUE, count |-> 0, ops |-> <<>>,
              outcome |-> "none", value |-> NoValue]

Constructed == ~limiter.thrown /\ "pending" \notin DOMAIN limiter

\* the store operation op is issued by the call with frame f and succeeds or fails
Issued(f, op, ok) == [f EXCEPT !.ops = Append(@, [op |-> op, ok |-> ok])]

\* the call of caller c settles: it returns value, or throws it
Settle(c, f, outcome, value) ==
    /\ pc' = [pc EXCEPT ![c] = "done"]
    /\ frame' = [frame EXCEPT ![c] = [f EXCEPT !.outcome = outcome, !.value = value]]

\* the call still runs: it is suspended at its next await
Await(c, f, next) ==
    /\ pc' = [pc EXCEPT ![c] = next]
    /\ frame' = [frame EXCEPT ![c] = f]

\* a catch block that rethrows the store's error
CatchRethrow(c, f) == Settle(c, f, "throw", "Redis connection lost")

\* a catch block that issues the failed operation again
CatchRetry(c, f) == Await(c, f, f.ops[Len(f.ops)].op)

\* lines 66-84: the catch block
Catch(c, f) == Settle(c, f, "return", FailureResult(limiter))

\* an identifier check whose error is handled like a store failure
RejectAsFailure(c, identifier, message) ==
    Settle(c, [IdleFrame EXCEPT !.identifier = identifier], "return",
           FailureResult(limiter))

\* lines 24-30: throw new Error(message), before anything else is done
Reject(c, identifier, message) ==
    Settle(c, [IdleFrame EXCEPT !.identifier = identifier], "throw", message)

\* lines 24-39: the synchronous head of consume(), up to the first await
\* (isOpen is what this.redis.isOpen reads when the call is made)
Start(c, identifier, isOpen) ==
    /\ Constructed
    /\ pc[c] = "idle"
    /\ \A d \in Callers : d < c => pc[d] # "idle"
    /\ ncalls' = ncalls + 1
    /\ UNCHANGED <<ctorArgs, middleware, limiter, clock, store, log, res, lastExpire>>
    /\ IF ~Truthy(identifier)
       THEN Reject(c, identifier, "Identifier is required")
       ELSE IF identifier.t # "string"
       THEN Reject(c, identifier, "Identifier must be a string")
       ELSE LET f == [IdleFrame EXCEPT !.identifier = identifier,
                                       !.key = KeyOf(limiter.keyPrefix, identifier.v),
                                       !.now = clock,
                                       !.windowStart = clock - limiter.windowMs,
                                       !.isOpen = isOpen]
            IN  IF ~isOpen
                THEN Settle(c, f, "throw", "Redis client is not connected")
                ELSE Await(c, f, "zRemRangeByScore")

Consume(c, identifier, isOpen) ==
    /\ ncalls < MaxCalls
    /\ Start(c, identifier, isOpen)
    /\ UNCHANGED peak

\* line 41: await this.redis.zRemRangeByScore(key, 0, windowStart)
ZRemRangeByScoreCall(c, ok) ==
    /\ pc[c] = "zRemRangeByScore"
    /\ UNCHANGED <<ctorArgs, middleware, limiter, clock, ncalls, log, res, peak>>
    /\ LET f == Issued(frame[c], "zRemRangeByScore", ok)
       IN  IF ok
           THEN /\ store' = zRemRangeByScore(store, f.key, 0, f.windowStart)
                /\ Await(c, f, "zCard")
           ELSE /\ store' = store
                /\ Catch(c, f)

ZRemRangeByScore(c, ok) == ZRemRangeByScoreCall(c, ok) /\ UNCHANGED lastExpire

\* lines 43-45 and 58-65: const count = await this.redis.zCard(key), the test on it
ZCard(c, ok) ==
    /\ pc[c] = "zCard"
    /\ UNCHANGED <<ctorArgs, middleware, limiter, clock, store, ncalls, log, res, peak, lastExpire>>
    /\ LET f == Issued(frame[c], "zCard", ok)
           g == [f EXCEPT !.count = zCard(store, f.key)]
       IN  IF ~ok THEN Catch(c, f)
           ELSE IF UnderLimit(g.count, limiter.maxRequests)
           THEN Await(c, g, "zAdd")
           ELSE Settle(c, g, "return", DeniedResult(limiter))

\* lines 46-47: await this.redis.zAdd(key, {score: now, value: uniqueId})
ZAdd(c, ok, suffix) ==
    /\ pc[c] = "zAdd"
    /\ UNCHANGED <<ctorArgs, middleware, limiter, clock, ncalls, log, res, peak, lastExpire>>
    /\ LET f == Issued(frame[c], "zAdd", ok)
       IN  IF ok
           THEN /\ store' = zAdd(store, f.key,
                                 [score |-> f.now, value |-> UniqueId(f.now, suffix)])
                /\ Await(c, f, "expire")
           ELSE /\ store' = store
                /\ Catch(c, f)

\* lines 49-57: await this.redis.expire(key, ...), then the admitted result
ExpireCall(c, ok) ==
    /\ pc[c] = "expire"
    /\ UNCHANGED <<ctorArgs, middleware, limiter, clock, store, ncalls, log, res, peak>>
    /\ LET f == Issued(frame[c], "expire", ok)
       IN  IF ok
           THEN Settle(c, f, "return", AllowedResult(limiter, f.now, f.count))
           ELSE Catch(c, f)

Expire(c, ok) == ExpireCall(c, ok) /\ UNCHANGED lastExpire

\* the caller's await of consume() completes: it has the result, or the error
Deliver(c) ==
    /\ pc[c] = "done"
    /\ pc' = [pc EXCEPT ![c] = "idle"]
    /\ frame' = [frame EXCEPT ![c] = IdleFrame]
    /\ UNCHANGED <<ctorArgs, middleware, limiter, clock, store, ncalls, res, peak, lastExpire>>

Return(c) == Deliver(c) /\ UNCHANGED log

----------------------------------------------------------------------------
(* createRateLimitMiddleware(limiter): rateLimitMiddleware(req, res, next) *)

TooManyRequests == 429

\* res and next as the middleware's tests build them: every call is recorded
NoResponse == [headers |-> <<>>, status |-> <<>>, json |-> <<>>, next |-> <<>>]

\* result.field, undefined when the result has no such field
Field(r, field) == IF field \in DOMAIN r THEN Num(r[field]) ELSE JSUndefined

\* functions are values too: the payload names the function
Fn(name) == [t |-> "function", v |-> name]

\* lines 14-16: req.ip || req.connection.remoteAddress
DefaultKeyGenerator(req) == OrElse(req.ip, req.remoteAddress)

\* the keyGenerator of the middleware's tests: req => req.userId || 'anonymous'
CustomKeyGenerator(req) == OrElse(req.userId, Str("anonymous"))

\* keyGenerator(req): the identifier it returns, or the error it throws
KeyGenerator(fn, req) ==
    CASE fn = Fn("defaultKeyGenerator") -> [thrown |-> FALSE, value |-> DefaultKeyGenerator(req)]
      [] fn = Fn("customKeyGenerator") -> [thrown |-> FALSE, value |-> CustomKeyGenerator(req)]
      [] fn = Fn("throwingKeyGenerator") -> Thrown("keyGenerator failed")

\* lines 9-18: the guard on limiter, options.keyGenerator || defaultKeyGenerator
createRateLimitMiddleware(l, options) ==
    IF ~Truthy(l) THEN Thrown("Rate limiter instance is required")
    ELSE [thrown |-> FALSE,
          keyGenerator |-> OrElse(options.keyGenerator, Fn("defaultKeyGenerator"))]

\* createRateLimitMiddleware has not been called
NoMiddleware == [thrown |-> FALSE, pending |-> TRUE]

MiddlewareCreated == ~middleware.thrown /\ "pending" \notin DOMAIN middleware

\* the limiter argument: absent, or the constructed limiter
LimiterInputs == {JSUndefined, [t |-> "object", v |-> 1]}

MiddlewareOptionsInputs ==
    [keyGenerator : {JSUndefined, Fn("customKeyGenerator"), Fn("throwingKeyGenerator")}]

RequestInputs ==
    [ip : {JSUndefined, Str("a")}, remoteAddress : {JSUndefined, Str("b")},
     userId : {JSUndefined, Str("a")}]

SetHeader(r, name, value) ==
    [r EXCEPT !.headers = Append(@, [name |-> name, value |-> value])]

\* lines 25-27
RateLimitHeaders(r, result) ==
    SetHeader(SetHeader(SetHeader(r,
        "X-RateLimit-Limit", Field(result, "limit")),
        "X-RateLimit-Remaining", Field(result, "remaining")),
        "X-RateLimit-Reset", Field(result, "resetTime"))

\* the middleware without its else: next() is called for a denied request too
MiddlewareResponseAlwaysNext(f) ==
    IF f.outcome = "throw"
    THEN [NoResponse EXCEPT !.next = <<<<Str(f.value)>>>>]
    ELSE LET r == RateLimitHeaders(NoResponse, f.value)
         IN  IF f.value.allowed
             THEN [r EXCEPT !.next = <<<<>>>>]
             ELSE [SetHeader(r, "RetryAfter", Field(f.value, "retryAfter")) EXCEPT
                     !.next = <<<<>>>>,
                     !.status = <<TooManyRequests>>,
                     !.json = <<[error |-> "Too Many Requests",
                                 message |-> "Rate limit exceeded. Please try again later.",
                                 retryAfter |-> Field(f.value, "retryAfter")]>>]

\* lines 23-38: what the middleware does with the outcome f of consume()
MiddlewareResponse(f) ==
    IF f.outcome = "throw"
    THEN [NoResponse EXCEPT !.next = <<<<Str(f.value)>>>>]
    ELSE LET r == RateLimitHeaders(NoResponse, f.value)
         IN  IF f.value.allowed
             THEN [r EXCEPT !.next = <<<<>>>>]
             ELSE [SetHeader(r, "RetryAfter", Field(f.value, "retryAfter")) EXCEPT
                     !.status = <<TooManyRequests>>,
                     !.json = <<[error |-> "Too Many Requests",
                                 message |-> "Rate limit exceeded. Please try again later.",
                                 retryAfter |-> Field(f.value, "retryAfter")]>>]

\* lines 21-23 and 35-38: the request arrives, keyGenerator(req) gives the identifier
\* that is passed to consume(); an error thrown by keyGenerator is caught and handed to
\* next() before the middleware yields, and consume() is not called
Handle(c, req, isOpen) ==
    /\ MiddlewareCreated
    /\ ncalls < MaxHandled
    /\ LET identifier == KeyGenerator(middleware.keyGenerator, req)
       IN  IF identifier.thrown
           THEN LET f == [IdleFrame EXCEPT !.outcome = "throw",
                                           !.value = identifier.message]
                IN  /\ Constructed
                    /\ pc[c] = "idle"
                    /\ \A d \in Callers : d < c => pc[d] # "idle"
                    /\ ncalls' = ncalls + 1
                    /\ pc' = [pc EXCEPT ![c] = "responded"]
                    /\ frame' = [frame EXCEPT ![c] = f]
                    /\ res' = [res EXCEPT ![c] = MiddlewareResponse(f)]
                    /\ UNCHANGED <<ctorArgs, middleware, limiter, clock, store, log,
                                   peak, lastExpire>>
           ELSE /\ Start(c, identifier.value, isOpen)
                /\ UNCHANGED peak

\* lines 23-38: the await of consume() completes, the response is made
Respond(c) ==
    /\ pc[c] = "done"
    /\ pc' = [pc EXCEPT ![c] = "responded"]
    /\ res' = [res EXCEPT ![c] = MiddlewareResponse(frame[c])]
    /\ UNCHANGED <<ctorArgs, middleware, limiter, clock, store, frame, ncalls, log, peak, lastExpire>>

\* the request is over
EndRequest(c) ==
    /\ pc[c] = "responded"
    /\ pc' = [pc EXCEPT ![c] = "idle"]
    /\ frame' = [frame EXCEPT ![c] = IdleFrame]
    /\ res' = [res EXCEPT ![c] = NoResponse]
    /\ UNCHANGED <<ctorArgs, middleware, limiter, clock, store, ncalls, log, peak, lastExpire>>

----------------------------------------------------------------------------
(* The environment: time passes *)

Tick ==
    /\ Constructed
    /\ clock + TickMs <= MaxTicks * TickMs
    /\ clock' = clock + TickMs
    /\ UNCHANGED <<ctorArgs, middleware, limiter, store, pc, frame, ncalls, log, res, peak, lastExpire>>

----------------------------------------------------------------------------
(* Specifications *)

InitRest ==
    /\ clock = 0
    /\ store = [k \in Keys |-> <<>>]
    /\ pc = [c \in Callers |-> "idle"]
    /\ frame = [c \in Callers |-> IdleFrame]
    /\ ncalls = 0
    /\ log = <<>>
    /\ res = [c \in Callers |-> NoResponse]
    /\ peak = [key \in Keys |-> 0]
    /\ lastExpire = [key \in Keys |-> NoExpire]

\* the running system: a limiter has been constructed
Init ==
    /\ \E options \in RunOptions :
        /\ ctorArgs = [redis |-> RedisClient, options |-> options]
        /\ limiter = RateLimiterNew(RedisClient, options)
    /\ middleware = NoMiddleware
    /\ InitRest

\* any number of callers, any interleaving of their store operations, any failure
Next ==
    \/ \E c \in Callers, identifier \in IdentifierInputs, isOpen \in BOOLEAN :
          Consume(c, identifier, isOpen)
    \/ \E c \in Callers, ok \in BOOLEAN : ZRemRangeByScore(c, ok)
    \/ \E c \in Callers, ok \in BOOLEAN : ZCard(c, ok)
    \/ \E c \in Callers, ok \in BOOLEAN, suffix \in RandomSuffixes : ZAdd(c, ok, suffix)
    \/ \E c \in Callers, ok \in BOOLEAN : Expire(c, ok)
    \/ \E c \in Callers : Return(c)
    \/ Tick

Spec == Init /\ [][Next]_vars

\* One caller making its calls one after another on a healthy store, keeping the
\* results in the order it receives them (as the tests of consume() do)
ConsumeSeq(c, identifier) ==
    /\ \A d \in Callers : pc[d] = "idle"
    /\ Consume(c, identifier, TRUE)

ReturnSeq(c) ==
    /\ Deliver(c)
    /\ log' = Append(log, [identifier |-> frame[c].identifier.v, now |-> frame[c].now,
                           value |-> frame[c].value])

NextSeq ==
    \/ \E c \in Callers, identifier \in ValidIdentifiers : ConsumeSeq(c, identifier)
    \/ \E c \in Callers : ZRemRangeByScore(c, TRUE)
    \/ \E c \in Callers : ZCard(c, TRUE)
    \/ \E c \in Callers, suffix \in RandomSuffixes : ZAdd(c, TRUE, suffix)
    \/ \E c \in Callers : Expire(c, TRUE)
    \/ \E c \in Callers : ReturnSeq(c)
    \/ Tick

SpecSeq == Init /\ [][NextSeq]_vars

\* Callers on a healthy store whose calls overlap in any way, with the number of
\* calls in flight for each key kept
InFlight(p, fr, key) ==
    {c \in Callers : p[c] \notin {"idle", "done"} /\ fr[c].key = key}

ConsumeConc(c, identifier) ==
    /\ ncalls < MaxCalls
    /\ Start(c, identifier, TRUE)
    /\ peak' = [key \in Keys |->
                 IF Cardinality(InFlight(pc', frame', key)) > peak[key]
                 THEN Cardinality(InFlight(pc', frame', key))
                 ELSE peak[key]]

NextConc ==
    \/ \E c \in Callers, identifier \in ValidIdentifiers : ConsumeConc(c, identifier)
    \/ \E c \in Callers : ZRemRangeByScore(c, TRUE)
    \/ \E c \in Callers : ZCard(c, TRUE)
    \/ \E c \in Callers, suffix \in RandomSuffixes : ZAdd(c, TRUE, suffix)
    \/ \E c \in Callers : Expire(c, TRUE)
    \/ \E c \in Callers : Return(c)
    \/ Tick

SpecConc == Init /\ [][NextConc]_vars

\* The same callers with any store failure, and what the store was last told by
\* expire(key, seconds) for the records a key holds: the store of the tests keeps
\* no time-to-live, so the call is only noted, and the note is dropped when the key
\* is left without records
ZRemRangeByScoreTtl(c, ok) ==
    /\ ZRemRangeByScoreCall(c, ok)
    /\ lastExpire' = [key \in Keys |->
                        IF store'[key] = <<>> THEN NoExpire ELSE lastExpire[key]]

ExpireTtl(c, ok) ==
    /\ ExpireCall(c, ok)
    /\ lastExpire' =
         IF ok /\ store[frame[c].key] # <<>>
         THEN [lastExpire EXCEPT ![frame[c].key] =
                  [at |-> clock, seconds |-> CeilDiv(limiter.windowMs, MsPerSecond)]]
         ELSE lastExpire

NextTtl ==
    \/ \E c \in Callers, identifier \in ValidIdentifiers : Consume(c, identifier, TRUE)
    \/ \E c \in Callers, ok \in BOOLEAN : ZRemRangeByScoreTtl(c, ok)
    \/ \E c \in Callers, ok \in BOOLEAN : ZCard(c, ok)
    \/ \E c \in Callers, ok \in BOOLEAN, suffix \in RandomSuffixes : ZAdd(c, ok, suffix)
    \/ \E c \in Callers, ok \in BOOLEAN : ExpireTtl(c, ok)
    \/ \E c \in Callers : Return(c)
    \/ Tick

SpecTtl == Init /\ [][NextTtl]_vars

\* Requests handled by the middleware, concurrently, with any store failure
InitMw ==
    /\ \E options \in RunOptions :
        /\ ctorArgs = [redis |-> RedisClient, options |-> options]
        /\ limiter = RateLimiterNew(RedisClient, options)
    /\ \E l \in LimiterInputs, options \in MiddlewareOptionsInputs :
        middleware = createRateLimitMiddleware(l, options)
    /\ InitRest

NextMw ==
    \/ \E c \in Callers, req \in RequestInputs, isOpen \in BOOLEAN : Handle(c, req, isOpen)
    \/ \E c \in Callers, ok \in BOOLEAN : ZRemRangeByScore(c, ok)
    \/ \E c \in Callers, ok \in BOOLEAN : ZCard(c, ok)
    \/ \E c \in Callers, ok \in BOOLEAN, suffix \in RandomSuffixes : ZAdd(c, ok, suffix)
    \/ \E c \in Callers, ok \in BOOLEAN : Expire(c, ok)
    \/ \E c \in Callers : Respond(c)
    \/ \E c \in Callers : EndRequest(c)
    \/ Tick

SpecMw == InitMw /\ [][NextMw]_vars

\* the constructor on every input
InitCtor ==
    /\ \E redis \in RedisInputs, options \in OptionsInputs :
        ctorArgs = [redis |-> redis, options |-> options]
    /\ limiter = NotConstructed
    /\ middleware = NoMiddleware
    /\ InitRest

Construct ==
    /\ "pending" \in DOMAIN limiter
    /\ limiter' = RateLimiterNew(ctorArgs.redis, ctorArgs.options)
    /\ UNCHANGED <<ctorArgs, middleware, clock, store, pc, frame, ncalls, log, res, peak, lastExpire>>

NextCtor == Construct

SpecCtor == InitCtor /\ [][NextCtor]_vars

----------------------------------------------------------------------------
(* Properties *)

Has(r, field) == field \in DOMAIN r

Done(c) == pc[c] = "done"
Returned(c) == Done(c) /\ frame[c].outcome = "return"
Threw(c) == Done(c) /\ frame[c].outcome = "throw"

\* a store operation of the call with frame f failed
Failed(f) == \E i \in DOMAIN f.ops : ~f.ops[i].ok
FailedOp(f, op) == \E i \in DOMAIN f.ops : f.ops[i].op = op /\ ~f.ops[i].ok

ValidIdentifier(x) == x.t = "string" /\ x.v # ""

\* the records under key that count at the current time
InWindow(key) ==
    {i \in DOMAIN store[key] : store[key][i].score > clock - limiter.windowMs}

\* the results a sequential caller received for one identifier, in order
ResultsFor(id) ==
    LET Mine(e) == e.identifier = id IN SelectSeq(log, Mine)

Identifiers == {i.v : i \in ValidIdentifiers}

\* C1: the number of events recorded for an identifier inside the current window
\* never exceeds maxRequests, whatever the interleaving of concurrent calls
C1_WindowNeverExceedsBudget ==
    \A key \in Keys : Cardinality(InWindow(key)) <= limiter.maxRequests

\* C2: on a fresh identifier, the k-th of B sequential calls made within one window
\* on a healthy store is allowed, with limit = B and remaining = B - k
C2_FirstBudgetCallsAllowed ==
    \A id \in Identifiers :
        LET r == ResultsFor(id)
        IN  \A k \in 1..Len(r) :
                (k <= limiter.maxRequests /\ r[k].now - r[1].now < limiter.windowMs)
                    => /\ r[k].value.allowed = TRUE
                       /\ r[k].value.limit = limiter.maxRequests
                       /\ r[k].value.remaining = limiter.maxRequests - k

C2_Witness ==
    /\ limiter.maxRequests = 2
    /\ \E id \in Identifiers :
        LET r == ResultsFor(id)
        IN  /\ Len(r) >= 2
            /\ r[2].now - r[1].now < limiter.windowMs
            /\ r[1].value.remaining = 1
            /\ r[2].value.remaining = 0
            /\ r[2].value.allowed

\* the calls before the m-th that were admitted inside the window of the m-th
AdmittedBefore(r, m) ==
    {j \in 1..(m - 1) : r[j].value.allowed /\ r[j].now > r[m].now - limiter.windowMs}

OverBudgetResult ==
    [allowed |-> FALSE, remaining |-> 0, limit |-> limiter.maxRequests,
     retryAfter |-> (limiter.windowMs + MsPerSecond - 1) \div MsPerSecond]

\* C3: a sequential call made when B calls were already admitted inside its window
\* is denied with remaining = 0, limit = B and retryAfter = ceil(windowMs / 1000),
\* and so is every further one
C3_CallsOverBudgetDenied ==
    \A id \in Identifiers :
        LET r == ResultsFor(id)
        IN  \A m \in 1..Len(r) :
                Cardinality(AdmittedBefore(r, m)) >= limiter.maxRequests
                    => r[m].value = OverBudgetResult

C3_Witness ==
    \E id \in Identifiers :
        LET r == ResultsFor(id)
        IN  /\ Len(r) = limiter.maxRequests + 2
            /\ \A k \in 1..limiter.maxRequests : r[k].value.allowed
            /\ r[Len(r) - 1].value = OverBudgetResult
            /\ r[Len(r)].value = OverBudgetResult

FailOpenResult ==
    [allowed |-> TRUE, remaining |-> 0, limit |-> limiter.maxRequests, degraded |-> TRUE]

FailClosedResult ==
    [allowed |-> FALSE, remaining |-> 0, limit |-> limiter.maxRequests,
     error |-> "Rate limiter unavailable"]

\* C4: when a store operation of consume fails, whichever it is, the result is the
\* one of the failure policy: fail-open or fail-closed
C4_FailurePolicyDecides ==
    \A c \in Callers :
        (Done(c) /\ Failed(frame[c]))
            => /\ frame[c].outcome = "return"
               /\ frame[c].value =
                    IF limiter.failClosed THEN FailClosedResult ELSE FailOpenResult

C4_Witness ==
    \E c \in Callers :
        /\ Returned(c)
        /\ FailedOp(frame[c], "expire")
        /\ limiter.failClosed
        /\ frame[c].value = FailClosedResult

\* C5 as stated: for a valid identifier consume never throws: a store problem, the
\* client not being connected included, always gives a decision result
C5_ValidIdentifierNeverThrows ==
    \A c \in Callers :
        (Done(c) /\ ValidIdentifier(frame[c].identifier)) => frame[c].outcome = "return"

\* C5, amended: for a valid identifier the failure of a store operation is never
\* thrown, consume returns the decision of the failure policy; consume throws only
\* when the client is not connected as the call is made, before any store operation
C5_StoreFailureNeverThrown ==
    \A c \in Callers :
        (Done(c) /\ ValidIdentifier(frame[c].identifier))
            => /\ frame[c].outcome = "throw" <=> ~frame[c].isOpen
               /\ frame[c].outcome = "throw"
                    => /\ frame[c].value = "Redis client is not connected"
                       /\ frame[c].ops = <<>>
               /\ frame[c].outcome = "return"
                    => /\ Has(frame[c].value, "allowed")
                       /\ Failed(frame[c])
                            => (Has(frame[c].value, "degraded")
                                \/ Has(frame[c].value, "error"))

C5_Witness ==
    \E c \in Callers :
        /\ Returned(c)
        /\ ValidIdentifier(frame[c].identifier)
        /\ FailedOp(frame[c], "zAdd")
        /\ Has(frame[c].value, "degraded")

StoreWriting(c) == pc[c] \in {"zRemRangeByScore", "zAdd"}

\* the records of a key change only in a step of a call made for that identifier
OnlyOwnKeyWritten ==
    \A key \in Keys :
        store'[key] # store[key]
            => \E c \in Callers :
                /\ StoreWriting(c)
                /\ pc'[c] # pc[c]
                /\ key = limiter.keyPrefix \o ":" \o frame[c].identifier.v

\* a call is over budget only by the records of its own identifier, as they are
\* when it is decided
DeniedByOwnRecords ==
    \A c \in Callers :
        (~Done(c) /\ Returned(c)' /\ ~Failed(frame'[c]) /\ ~frame'[c].value.allowed)
            => Len(store[limiter.keyPrefix \o ":" \o frame'[c].identifier.v])
                    >= limiter.maxRequests

\* C6: distinct identifiers have independent budgets: calls for one identifier never
\* change the records of another, and a call is decided by its own records alone
C6_IdentifiersIndependent == [][OnlyOwnKeyWritten /\ DeniedByOwnRecords]_vars

C6_Witness ==
    \E c \in Callers :
        /\ Returned(c)
        /\ frame[c].identifier = Str("b")
        /\ frame[c].value.allowed
        /\ frame[c].value.remaining = limiter.maxRequests - 1
        /\ Len(store[limiter.keyPrefix \o ":a"]) >= limiter.maxRequests

\* the calls before the m-th that were admitted
Admitted(r, m) == {j \in 1..(m - 1) : r[j].value.allowed}

FirstAdmitted(r, m) == CHOOSE j \in Admitted(r, m) : \A i \in Admitted(r, m) : j <= i

FullyReset(id, r, m) ==
    /\ r[m].value.allowed
    /\ r[m].value.remaining = limiter.maxRequests - 1
    /\ (m = Len(r) /\ log[Len(log)].identifier = id /\ \A c \in Callers : pc[c] = "idle")
          => /\ Len(store[limiter.keyPrefix \o ":" \o id]) = 1
             /\ store[limiter.keyPrefix \o ":" \o id][1].score = r[m].now

\* C7 as stated: a sequential call made more than windowMs after the first recorded
\* event of its identifier finds the budget fully reset
C7_ResetAfterFirstEvent ==
    \A id \in Identifiers :
        LET r == ResultsFor(id)
        IN  \A m \in 1..Len(r) :
                (Admitted(r, m) # {}
                 /\ r[m].now > r[FirstAdmitted(r, m)].now + limiter.windowMs)
                    => FullyReset(id, r, m)

\* C7, amended: a sequential call made more than windowMs after the most recent
\* recorded event of its identifier finds the budget fully reset: it purges the
\* prior records, is allowed and returns remaining = budget - 1
C7_ResetAfterLastEvent ==
    \A id \in Identifiers :
        LET r == ResultsFor(id)
        IN  \A m \in 1..Len(r) :
                (Admitted(r, m) # {}
                 /\ \A j \in Admitted(r, m) : r[m].now > r[j].now + limiter.windowMs)
                    => FullyReset(id, r, m)

C7_Witness ==
    \E id \in Identifiers :
        LET r == ResultsFor(id)
        IN  /\ Len(r) >= 2
            /\ log[Len(log)].identifier = id
            /\ \A c \in Callers : pc[c] = "idle"
            /\ Admitted(r, Len(r)) # {}
            /\ \A j \in Admitted(r, Len(r)) : r[Len(r)].now > r[j].now + limiter.windowMs
            /\ r[Len(r)].value.remaining = limiter.maxRequests - 1
            /\ Len(store[limiter.keyPrefix \o ":" \o id]) = 1

NonPositive(x) == x.t = "number" /\ x.v <= 0

\* C8: construction fails for a missing store, a window length <= 0 and a budget
\* <= 0, the value 0 included
C8_InvalidConfigurationRejected ==
    ("pending" \notin DOMAIN limiter
     /\ \/ ctorArgs.redis = JSNull
        \/ NonPositive(ctorArgs.options.windowMs)
        \/ NonPositive(ctorArgs.options.maxRequests))
        => limiter.thrown

\* C9: a denied result carries exactly one of retryAfter and error: retryAfter when
\* the store was healthy and the identifier over budget, error when a store
\* operation failed under fail-closed
C9_DeniedCarriesRetryAfterOrError ==
    \A c \in Callers :
        (Returned(c) /\ ~frame[c].value.allowed)
            => /\ Has(frame[c].value, "retryAfter") # Has(frame[c].value, "error")
               /\ Has(frame[c].value, "retryAfter")
                    <=> (~Failed(frame[c]) /\ frame[c].count >= limiter.maxRequests)
               /\ Has(frame[c].value, "error")
                    <=> (Failed(frame[c]) /\ limiter.failClosed)

C9_Witness ==
    /\ \E c \in Callers :
        /\ Returned(c)
        /\ ~frame[c].value.allowed
        /\ Has(frame[c].value, "retryAfter")
        /\ ~Has(frame[c].value, "error")
        /\ limiter.failClosed

\* C10: every result with allowed = true carries resetTime = now + windowMs,
\* whatever the store condition and the failure policy
C10_AllowedCarriesResetTime ==
    \A c \in Callers :
        (Returned(c) /\ frame[c].value.allowed)
            => /\ Has(frame[c].value, "resetTime")
               /\ frame[c].value.resetTime = frame[c].now + limiter.windowMs

\* the call of caller c was made with an identifier consume() does not accept
InvalidCall(c) == pc[c] # "idle" /\ ~ValidIdentifier(frame[c].identifier)

\* a call with an invalid identifier has thrown, and has issued no store operation
InvalidIdentifierThrows ==
    \A c \in Callers :
        InvalidCall(c)
            => /\ Threw(c)
               /\ frame[c].ops = <<>>
               /\ frame[c].value \in {"Identifier is required", "Identifier must be a string"}

\* the step in which a call with an invalid identifier is made leaves the store as it is
InvalidCallKeepsStore ==
    (\E c \in Callers : pc[c] = "idle" /\ InvalidCall(c)') => store' = store

\* C11 as stated: an absent or empty identifier fails with 'Identifier is required', a
\* non-string with 'Identifier must be a string'; no store operation, no decision
C11_NonStringIsTypeError ==
    \A c \in Callers :
        InvalidCall(c)
            => /\ Threw(c)
               /\ frame[c].ops = <<>>
               /\ frame[c].value =
                    IF frame[c].identifier.t = "number"
                    THEN "Identifier must be a string" ELSE "Identifier is required"

\* C11, amended: an absent, empty or otherwise falsy identifier (0 included) fails
\* with 'Identifier is required', any other non-string with 'Identifier must be a
\* string', under every policy and store condition; the call issues no store
\* operation, leaves the store unchanged and yields no decision result
C11_InvalidIdentifierRejected ==
    /\ [](InvalidIdentifierThrows
          /\ \A c \in Callers :
                InvalidCall(c)
                    => frame[c].value =
                         IF Truthy(frame[c].identifier)
                         THEN "Identifier must be a string" ELSE "Identifier is required")
    /\ [][InvalidCallKeepsStore]_vars

C11_Witness ==
    \E c \in Callers :
        /\ Threw(c)
        /\ frame[c].identifier = Num(123)
        /\ frame[c].value = "Identifier must be a string"
        /\ limiter.failClosed
        /\ \E key \in Keys : store[key] # <<>>

Responded(c) == pc[c] = "responded"

\* header name is set, to a defined value
HeaderDefined(r, name) ==
    \E i \in DOMAIN r.headers : r.headers[i].name = name /\ r.headers[i].value.t = "number"

\* header name is set to value, and set once
HeaderIs(r, name, value) ==
    /\ \E i \in DOMAIN r.headers : r.headers[i] = [name |-> name, value |-> value]
    /\ Cardinality({i \in DOMAIN r.headers : r.headers[i].name = name}) = 1

\* consume() returned allowed = true: next() is called once, no 429 is sent
PassedOn(c) ==
    /\ frame[c].outcome = "return"
    /\ frame[c].value.allowed
    /\ res[c].next = <<<<>>>>
    /\ res[c].status = <<>>
    /\ res[c].json = <<>>

\* consume() returned allowed = false: a 429 with the result's retryAfter, no next()
Blocked(c) ==
    /\ frame[c].outcome = "return"
    /\ ~frame[c].value.allowed
    /\ res[c].next = <<>>
    /\ res[c].status = <<TooManyRequests>>
    /\ Len(res[c].json) = 1
    /\ res[c].json[1].error = "Too Many Requests"
    /\ res[c].json[1].retryAfter = Field(frame[c].value, "retryAfter")

\* consume() or keyGenerator threw: the error is handed to next(), nothing is sent or set
ErrorPassedOn(c) ==
    /\ frame[c].outcome = "throw"
    /\ res[c].next = <<<<Str(frame[c].value)>>>>
    /\ res[c].status = <<>>
    /\ res[c].json = <<>>
    /\ res[c].headers = <<>>

\* C12: for every request the middleware handles, exactly one of two outcomes happens:
\* consume returns allowed = true, next() is called once and no 429 is sent; or
\* consume returns allowed = false, a 429 'Too Many Requests' is sent whose body
\* carries the result's retryAfter, and next() is not called
C12_NextOrTooManyRequests ==
    \A c \in Callers : Responded(c) => (PassedOn(c) \/ Blocked(c))

\* C12: for every request the middleware handles, exactly one of three outcomes
\* happens: the two above when consume returns, and when consume throws (identifier
\* missing or not a string, store not connected) or keyGenerator throws, next(error)
\* is called once with the error, no 429 is sent and no header is set
C12_NextOrTooManyRequestsOrError ==
    \A c \in Callers :
        Responded(c) =>
            /\ PassedOn(c) \/ Blocked(c) \/ ErrorPassedOn(c)
            /\ PassedOn(c) <=> (frame[c].outcome = "return" /\ frame[c].value.allowed)
            /\ Blocked(c) <=> (frame[c].outcome = "return" /\ ~frame[c].value.allowed)
            /\ ErrorPassedOn(c) <=> frame[c].outcome = "throw"

C12_Witness ==
    \E c \in Callers :
        /\ Responded(c)
        /\ frame[c].outcome = "return"
        /\ ~Failed(frame[c])
        /\ ~frame[c].value.allowed
        /\ res[c].status = <<TooManyRequests>>
        /\ res[c].json[1].retryAfter = Num(1)
        /\ middleware.keyGenerator = Fn("customKeyGenerator")
        /\ res[c].next = <<>>

\* C13: a denied request carries X-RateLimit-Limit, X-RateLimit-Remaining,
\* X-RateLimit-Reset and Retry-After, an admitted one the three X-RateLimit-*
\* headers, each set to the defined value of the consume() result
C13_StandardHeaders ==
    \A c \in Callers :
        (Responded(c) /\ frame[c].outcome = "return")
            => /\ HeaderIs(res[c], "X-RateLimit-Limit", Num(frame[c].value.limit))
               /\ HeaderIs(res[c], "X-RateLimit-Remaining", Num(frame[c].value.remaining))
               /\ HeaderDefined(res[c], "X-RateLimit-Reset")
               /\ ~frame[c].value.allowed => HeaderDefined(res[c], "Retry-After")

\* C14: with a healthy store, while at most N calls for one identifier were ever
\* in flight together, its key never holds more than budget + (N - 1) records,
\* whatever the interleaving; with N = 1 never more than budget
C14_OvershootBoundedByOverlap ==
    \A key \in Keys :
        IF peak[key] = 0
        THEN store[key] = <<>>
        ELSE Len(store[key]) <= limiter.maxRequests + (peak[key] - 1)

C14_Witness ==
    \E key \in Keys :
        /\ peak[key] = 2
        /\ Len(store[key]) = limiter.maxRequests + 1
        /\ \A c \in Callers : pc[c] = "expire" /\ frame[c].key = key

\* the instants at which the window is looked at
Instants == {k * HalfSecond : k \in 0..(2 * MaxTicks + 3)}

\* the calls of r admitted with a timestamp in (t - windowMs, t]
AdmittedIn(r, t) ==
    {j \in DOMAIN r : r[j].value.allowed /\ r[j].now > t - limiter.windowMs /\ r[j].now <= t}

\* C15: sliding window, sequential use on a healthy store: at every instant t at most
\* budget admitted calls of one identifier have a timestamp in (t - windowMs, t], and
\* a call is admitted exactly when fewer than budget earlier admitted calls have a
\* timestamp strictly greater than its now - windowMs
C15_SlidingWindow ==
    \A id \in Identifiers :
        LET r == ResultsFor(id)
        IN  /\ \A t \in Instants : Cardinality(AdmittedIn(r, t)) <= limiter.maxRequests
            /\ \A m \in DOMAIN r :
                   r[m].value.allowed
                       <=> Cardinality(AdmittedBefore(r, m)) < limiter.maxRequests

\* two calls admitted at 1000 and a third denied at 2000 with a window of 1500: the
\* window of the third is (500, 2000], not the fixed one that starts at 1500
C15_Witness ==
    /\ limiter.windowMs = 3 * HalfSecond
    /\ \E id \in Identifiers :
        LET r == ResultsFor(id)
        IN  /\ Len(r) = 3
            /\ r[1].now = 2 * HalfSecond /\ r[1].value.allowed
            /\ r[2].now = 2 * HalfSecond /\ r[2].value.allowed
            /\ r[3].now = 4 * HalfSecond /\ ~r[3].value.allowed
            /\ Cardinality(AdmittedIn(r, 4 * HalfSecond)) = limiter.maxRequests

\* the call with frame f added its record to the store
Inserted(f) == \E i \in DOMAIN f.ops : f.ops[i].op = "zAdd" /\ f.ops[i].ok

\* C16: a call that returns allowed = false never added an event record, under every
\* failure policy and wherever a store operation fails
C16_DeniedCallAddsNoRecord ==
    \A c \in Callers :
        (Returned(c) /\ ~frame[c].value.allowed) => ~Inserted(frame[c])

\* the store operations of consume() in the order of the code
StoreOps == <<"zRemRangeByScore", "zCard", "zAdd", "expire">>

OpsFormPrefix(f) ==
    /\ Len(f.ops) <= Len(StoreOps)
    /\ \A i \in DOMAIN f.ops : f.ops[i].op = StoreOps[i]
    /\ \A i \in DOMAIN f.ops : i < Len(f.ops) => f.ops[i].ok

\* C17: the store operations of one call form a prefix of remove-range, count, insert,
\* set-expiry, each issued once and after the previous one completed; insert only
\* after a count strictly below budget, set-expiry only after a successful insert,
\* and nothing after the first failed operation
C17_OperationsFormPrefix ==
    \A c \in Callers :
        LET f == frame[c]
        IN  /\ OpsFormPrefix(f)
            /\ pc[c] \in {"zRemRangeByScore", "zCard", "zAdd", "expire"}
                   => /\ ~Failed(f)
                      /\ Len(f.ops) < Len(StoreOps)
                      /\ pc[c] = StoreOps[Len(f.ops) + 1]
            /\ (pc[c] = "zAdd" \/ Len(f.ops) >= 3)
                   => /\ f.ops[2].ok
                      /\ f.count < limiter.maxRequests
            /\ (pc[c] = "expire" \/ Len(f.ops) = 4) => Inserted(f)
            /\ Failed(f) => Done(c)

C17_Witness ==
    \E c, d \in Callers :
        /\ Done(c)
        /\ frame[c].ops = <<[op |-> "zRemRangeByScore", ok |-> TRUE],
                            [op |-> "zCard", ok |-> TRUE],
                            [op |-> "zAdd", ok |-> FALSE]>>
        /\ pc[d] = "expire"
        /\ Len(frame[d].ops) = 3

\* C20: every result returned by consume(), under any interleaving and any store
\* failure, has limit = budget and 0 <= remaining <= limit - 1; remaining is 0 in
\* every denied and every degraded result, and never negative when concurrent
\* admissions pushed the stored count above the budget
C20_RemainingWithinLimit ==
    \A c \in Callers :
        Returned(c) =>
            LET r == frame[c].value
            IN  /\ r.limit = limiter.maxRequests
                /\ 0 <= r.remaining
                /\ r.remaining <= r.limit - 1
                /\ (~r.allowed \/ Has(r, "degraded")) => r.remaining = 0

C20_Witness ==
    \E c \in Callers :
        /\ Returned(c)
        /\ frame[c].value.allowed
        /\ ~Has(frame[c].value, "degraded")
        /\ frame[c].value.remaining = 0
        /\ Len(store[frame[c].key]) > limiter.maxRequests

\* a call for key has inserted its record and has not finished yet
Inserting(key) ==
    \E c \in Callers :
        /\ pc[c] \in {"zRemRangeByScore", "zCard", "zAdd", "expire"}
        /\ frame[c].key = key
        /\ Inserted(frame[c])

\* the time-to-live of key, as the expire call last made for its records set it
HasTtl(key) == lastExpire[key] # NoExpire

TtlEnd(key) == lastExpire[key].at + lastExpire[key].seconds * MsPerSecond

\* C18: every key that holds a record has a time-to-live once the call that inserted
\* the record has finished, whatever its outcome, so that the records of an idle
\* identifier are removed by the time-to-live alone
C18_EveryRecordHasTtl ==
    \A key \in Keys :
        (store[key] # <<>> /\ ~Inserting(key)) => HasTtl(key)

\* C19: when the time-to-live of a key ends, every record under the key has a
\* timestamp at or before that moment - windowMs: expiry of the key never removes a
\* record that still counts toward the budget
C19_ExpiryRemovesOnlyStale ==
    [][\A key \in Keys :
          (HasTtl(key) /\ clock < TtlEnd(key) /\ TtlEnd(key) <= clock')
              => \A i \in DOMAIN store[key] :
                     store[key][i].score <= TtlEnd(key) - limiter.windowMs]_vars

====
